---- MODULE Spec2Model ----
(***************************************************************************)
(* CampusHub (college event & club hub): the registration / membership     *)
(* ledger.  The database schema (backend/database/schema.sql) holds the    *)
(* tables; the browser client (frontend/js/api.js) issues the requests.    *)
(* The FastAPI handlers between the two are modelled from the written      *)
(* specification of the ledger.                                            *)
(***************************************************************************)
EXTENDS Integers, FiniteSets, Sequences, Bags, TLC

NumUsers == 2
NumEvents == 1
NumClubs == 1
MaxCalls == 2
MaxCap == 1

UserIds == 1..NumUsers
EventIds == 1..NumEvents
ClubIds == 1..NumClubs
Calls == 1..MaxCalls

Kinds == {"event", "club"}

\* max_participants INTEGER is nullable: <<>> is NULL, <<n>> the limit n.
NULL == <<>>

VARIABLES
    users,                \* table users: id -> row
    events,               \* table events: id -> row
    clubs,                \* table clubs: id -> row
    event_registrations,  \* table event_registrations: bag of <<user_id, event_id>>
    club_memberships,     \* table club_memberships: bag of <<user_id, club_id>>
    call,                 \* the api.request calls of the clients
    order,                \* the calls the ledger executed last, oldest first
    before,               \* what the ledger held when it executed the last call
    page,                 \* the detail page a signed-in user has open
    localStorage          \* the items access_token and user of the browser's localStorage

vars == <<users, events, clubs, event_registrations, club_memberships, call, order, before, page,
         localStorage>>

ghost == <<order, before>>

tables == <<users, events, clubs, event_registrations, club_memberships>>

-----------------------------------------------------------------------------
(* The schema *)

\* users.role DEFAULT 'student'
NewUser == [role |-> "student"]

\* events.status DEFAULT 'upcoming', max_participants INTEGER
NewEvent(max_participants) == [status |-> "upcoming", max_participants |-> max_participants]

\* clubs.category VARCHAR(50), nullable
NewClub == [category |-> NULL]

\* A table of relationship rows, seen through its (user_id, resource_id) columns;
\* id and registered_at / joined_at are read by no operation.
Table(kind) == IF kind = "event" THEN event_registrations ELSE club_memberships

Resources(kind) == IF kind = "event" THEN DOMAIN events ELSE DOMAIN clubs

\* SELECT ... WHERE resource_id = r
RowsFor(table, r) == [p \in {q \in DOMAIN table : q[2] = r} |-> table[p]]

\* SELECT ... WHERE user_id = u
RowsOf(table, u) == [p \in {q \in DOMAIN table : q[1] = u} |-> table[p]]

\* The constraint declared on the event alone: UNIQUE(event_id)
UniqueUserEvent_eventOnly(table, user_id, event_id) ==
    \A p \in DOMAIN table : p[2] # event_id

\* The table without its UNIQUE(user_id, event_id) constraint
UniqueUserEvent_dropped(table, user_id, event_id) == TRUE

\* UNIQUE(user_id, event_id): may a row (user_id, event_id) be inserted?
UniqueUserEvent(table, user_id, event_id) == CopiesIn(<<user_id, event_id>>, table) = 0

\* The table without its UNIQUE(user_id, club_id) constraint
UniqueUserClub_dropped(table, user_id, club_id) == TRUE

\* UNIQUE(user_id, club_id)
UniqueUserClub(table, user_id, club_id) == CopiesIn(<<user_id, club_id>>, table) = 0

\* Both relationship tables without their UNIQUE constraints
Unique_dropped(kind, table, user_id, id) == TRUE

Unique(kind, table, user_id, id) ==
    IF kind = "event" THEN UniqueUserEvent(table, user_id, id)
                      ELSE UniqueUserClub(table, user_id, id)

\* user_id REFERENCES users(id), event_id / club_id REFERENCES events(id) / clubs(id)
ForeignKeys(kind, user_id, id) == user_id \in DOMAIN users /\ id \in Resources(kind)

\* INSERT INTO event_registrations / club_memberships (user_id, resource_id)
Insert(table, user_id, id) == table (+) SetToBag({<<user_id, id>>})

\* DELETE FROM ... WHERE user_id = u AND resource_id = r
Delete(table, user_id, id) == [p \in DOMAIN table \ {<<user_id, id>>} |-> table[p]]

\* A foreign key declared without ON DELETE CASCADE (and not enforced)
CascadeResource_none(table, id) == table

\* ON DELETE CASCADE of the rows whose resource_id references a deleted row
CascadeResource(table, id) == [p \in {q \in DOMAIN table : q[2] # id} |-> table[p]]

\* ON DELETE CASCADE of the rows whose user_id references a deleted user
CascadeUser(table, user_id) == [p \in {q \in DOMAIN table : q[1] # user_id} |-> table[p]]

-----------------------------------------------------------------------------
(* The ledger as the backend exposes it (backend/api/registrations.py,     *)
(* backend/api/events.py, backend/api/clubs.py)                            *)

\* registration_count / member_count: computed on read, SELECT count(*) of the
\* rows that reference the resource (the schema stores no counter column).
DerivedCount(kind, id) == BagCardinality(RowsFor(Table(kind), id))

\* GET /events/{id}
getEvent(eventId) ==
    [id |-> eventId, status |-> events[eventId].status,
     max_participants |-> events[eventId].max_participants,
     registration_count |-> DerivedCount("event", eventId)]

\* GET /clubs/{id}
getClub(clubId) ==
    [id |-> clubId, category |-> clubs[clubId].category,
     member_count |-> DerivedCount("club", clubId)]

\* GET /registrations/events/my, for the user the bearer token names
getMyEventRegistrations(user_id) ==
    {[user_id |-> p[1], event_id |-> p[2]] : p \in DOMAIN RowsOf(event_registrations, user_id)}

\* GET /registrations/clubs/my
getMyClubMemberships(user_id) ==
    {[user_id |-> p[1], club_id |-> p[2]] : p \in DOMAIN RowsOf(club_memberships, user_id)}

\* The capacity check off by one: > where >= is meant
AtCapacity_offByOne(kind, id) ==
    /\ kind = "event"
    /\ id \in DOMAIN events
    /\ events[id].max_participants # NULL
    /\ BagCardinality(RowsFor(event_registrations, id)) > events[id].max_participants[1]

\* The capacity precondition of create: the event defines a maximum and the
\* current active count has reached it.
AtCapacity(kind, id) ==
    /\ kind = "event"
    /\ id \in DOMAIN events
    /\ events[id].max_participants # NULL
    /\ DerivedCount("event", id) >= events[id].max_participants[1]

\* POST /registrations/events/{id}, POST /registrations/clubs/{id}: one transaction
CreateOutcome(kind, user_id, id) ==
    IF ~ForeignKeys(kind, user_id, id) THEN "NotFound"
    ELSE IF ~Unique(kind, Table(kind), user_id, id) THEN "DuplicateRelationship"
    ELSE IF AtCapacity(kind, id) THEN "CapacityExceeded"
    ELSE "ok"

\* DELETE /registrations/events/{id}, DELETE /registrations/clubs/{id}
RemoveOutcome(kind, user_id, id) ==
    IF CopiesIn(<<user_id, id>>, Table(kind)) = 0 THEN "NotFound" ELSE "ok"

\* The table after the request, given its outcome
Applied(method, outcome, table, user_id, id) ==
    IF outcome # "ok" THEN table
    ELSE IF method = "POST" THEN Insert(table, user_id, id)
    ELSE Delete(table, user_id, id)

-----------------------------------------------------------------------------
(* The client (frontend/js/api.js, events.js, clubs.js) *)

\* the body of a response: response.ok and the error's detail
Response(outcome) == [ok |-> outcome = "ok", detail |-> IF outcome = "ok" THEN "" ELSE outcome]

\* api.request returning the error body of a non-OK response where it throws
request_returnsError(response) == [returned |-> TRUE, error |-> response.detail]

\* api.request without its `if (!response.ok)` branch: every body is returned
request_swallow(response) == [returned |-> TRUE, error |-> ""]

\* api.request throwing a fixed message instead of the response's detail
request_noDetail(response) ==
    IF response.ok
    THEN [returned |-> TRUE, error |-> ""]
    ELSE [returned |-> FALSE, error |-> "Request failed"]

\* api.request after fetch resolved: returns the body of an OK response, throws
\* Error(error.detail || `HTTP ${status}`) for any other.
request(response) ==
    IF response.ok
    THEN [returned |-> TRUE, error |-> ""]
    ELSE [returned |-> FALSE,
          error |-> IF response.detail # "" THEN response.detail ELSE "HTTP error"]

\* api.request when fetch rejects: the catch block rethrows
requestFailed == [returned |-> FALSE, error |-> "Failed to fetch"]

NoResult == [returned |-> FALSE, error |-> ""]

\* checkEventRegistration written with every() where some() is meant
checkEventRegistration_every(registrations, eventId) ==
    \A r \in registrations : r.event_id = eventId

\* checkEventRegistration comparing the wrong column of the row
checkEventRegistration_wrongColumn(registrations, eventId) ==
    \E r \in registrations : r.user_id = eventId

\* checkEventRegistration: registrations.some(r => r.event_id === eventId)
checkEventRegistration(registrations, eventId) == \E r \in registrations : r.event_id = eventId

\* checkClubMembership comparing the wrong column of the row
checkClubMembership_wrongColumn(memberships, clubId) ==
    \E m \in memberships : m.user_id = clubId

\* checkClubMembership: memberships.some(m => m.club_id === clubId)
checkClubMembership(memberships, clubId) == \E m \in memberships : m.club_id = clubId

\* isActive(userId, resourceId, kind), as the client derives it from the list
isActive(user_id, kind, id) ==
    IF kind = "event" THEN checkEventRegistration(getMyEventRegistrations(user_id), id)
                      ELSE checkClubMembership(getMyClubMemberships(user_id), id)

\* renderEventDetail: `${event.registration_count || 0} registered`
eventDetailRegCount(event) == IF event.registration_count = 0 THEN 0 ELSE event.registration_count

\* renderClubDetail: `${club.member_count || 0} Members`
clubDetailMembers(club) == IF club.member_count = 0 THEN 0 ELSE club.member_count

\* What the ledger held when it executed the call LastCall: the rows of the
\* call's pair and the derived count of its resource.
NotExecuted == [rows |-> 0, count |-> 0]

\* localStorage with neither item: getItem returns null for both
NoItems == [access_token |-> NULL, user |-> NULL]

\* localStorage after setItem('access_token', token) and setItem('user', user)
Stored(token, user) == [access_token |-> <<token>>, user |-> <<user>>]

\* The access token the backend issues for the user with this id, and the
\* user data it returns with it
Token(id) == <<"jwt", id>>

UserData(id) == [id |-> id, role |-> users[id].role]

\* The headers api.request sends: Content-Type (the same in every request,
\* left out) and, if getItem('access_token') is truthy, Authorization
Headers(access_token) ==
    [Authorization |-> IF access_token # NULL THEN <<"Bearer", access_token[1]>> ELSE NULL]

\* isLoggedIn(): both items are stored
isLoggedIn == localStorage.access_token # NULL /\ localStorage.user # NULL

\* getCurrentUser(): the stored user, or null
getCurrentUser == localStorage.user

\* getUserRole(): the role of the stored user, 'student' without one
getUserRole == IF getCurrentUser # NULL THEN getCurrentUser[1].role ELSE "student"

IdleCall ==
    [pc |-> "idle", api |-> "", method |-> "", kind |-> "", user |-> 0, id |-> 0,
     outcome |-> "", result |-> NoResult, body |-> {}, headers |-> Headers(NULL)]

\* api.request up to its await: fetch(`${API_BASE_URL}${endpoint}`, {method}) with the
\* bearer token of user_id; `api` is the function of the api object that was called.
Fetch(api, method, kind, user_id, id) ==
    [pc |-> "fetching", api |-> api, method |-> method, kind |-> kind, user |-> user_id,
     id |-> id, outcome |-> "", result |-> NoResult, body |-> {},
     headers |-> Headers(IF user_id = 0 THEN NULL ELSE <<Token(user_id)>>)]

\* `order` holds the last two operations the ledger executed, oldest first: the
\* slot of a call whose response arrived, or 0 for any other operation (a
\* cascading delete, a request whose response was lost).  A slot leaves when
\* its call completes; what was executed before it is then no longer known.
LastCall == IF order = <<>> THEN 0 ELSE order[Len(order)]

PrevCall == IF Len(order) < 2 THEN 0 ELSE order[1]

Executed(x) == IF LastCall = 0 THEN <<x>> ELSE <<LastCall, x>>

Forget(c) ==
    IF order # <<>> /\ order[Len(order)] = c THEN <<>>
    ELSE SelectSeq(order, LAMBDA x : x # c)

\* No detail page is open
NoPage == [kind |-> "", user |-> 0, id |-> 0, flag |-> FALSE, shown |-> 0, toast |-> ""]

-----------------------------------------------------------------------------
Caps == {NULL} \cup {<<n>> : n \in 1..MaxCap}

Init ==
    /\ users = [u \in UserIds |-> NewUser]
    /\ events \in [EventIds -> {NewEvent(m) : m \in Caps}]
    /\ clubs = [c \in ClubIds |-> NewClub]
    /\ event_registrations = EmptyBag
    /\ club_memberships = EmptyBag
    /\ call = [c \in Calls |-> IdleCall]
    /\ order = <<>>
    /\ before = NotExecuted
    /\ page = NoPage
    /\ localStorage = NoItems

\* api.registerForEvent posting to the endpoint of the clubs
registerForEvent_clubsEndpoint(c, user_id, eventId) ==
    /\ call[c].pc = "idle"
    /\ call' = [call EXCEPT ![c] = Fetch("registerForEvent", "POST", "club", user_id, eventId)]
    /\ UNCHANGED <<tables, ghost>>
    /\ UNCHANGED <<page, localStorage>>

\* api.registerForEvent(eventId): POST /registrations/events/{id}
registerForEvent(c, user_id, eventId) ==
    /\ call[c].pc = "idle"
    /\ call' = [call EXCEPT ![c] = Fetch("registerForEvent", "POST", "event", user_id, eventId)]
    /\ UNCHANGED <<tables, ghost>>
    /\ UNCHANGED <<page, localStorage>>

\* api.unregisterFromEvent copied from registerForEvent with its method left as POST
unregisterFromEvent_post(c, user_id, eventId) ==
    /\ call[c].pc = "idle"
    /\ call' = [call EXCEPT ![c] = Fetch("unregisterFromEvent", "POST", "event", user_id, eventId)]
    /\ UNCHANGED <<tables, ghost>>
    /\ UNCHANGED <<page, localStorage>>

\* api.unregisterFromEvent(eventId): DELETE /registrations/events/{id}
unregisterFromEvent(c, user_id, eventId) ==
    /\ call[c].pc = "idle"
    /\ call' = [call EXCEPT ![c] = Fetch("unregisterFromEvent", "DELETE", "event", user_id, eventId)]
    /\ UNCHANGED <<tables, ghost>>
    /\ UNCHANGED <<page, localStorage>>

\* api.joinClub(clubId): POST /registrations/clubs/{id}
joinClub(c, user_id, clubId) ==
    /\ call[c].pc = "idle"
    /\ call' = [call EXCEPT ![c] = Fetch("joinClub", "POST", "club", user_id, clubId)]
    /\ UNCHANGED <<tables, ghost>>
    /\ UNCHANGED <<page, localStorage>>

\* api.leaveClub copied from joinClub with its method left as POST
leaveClub_post(c, user_id, clubId) ==
    /\ call[c].pc = "idle"
    /\ call' = [call EXCEPT ![c] = Fetch("leaveClub", "POST", "club", user_id, clubId)]
    /\ UNCHANGED <<tables, ghost>>
    /\ UNCHANGED <<page, localStorage>>

\* api.leaveClub(clubId): DELETE /registrations/clubs/{id}
leaveClub(c, user_id, clubId) ==
    /\ call[c].pc = "idle"
    /\ call' = [call EXCEPT ![c] = Fetch("leaveClub", "DELETE", "club", user_id, clubId)]
    /\ UNCHANGED <<tables, ghost>>
    /\ UNCHANGED <<page, localStorage>>

\* The outcome of the request of call record k on the ledger as it is now
Outcome(k) ==
    IF k.method = "POST" THEN CreateOutcome(k.kind, k.user, k.id)
                         ELSE RemoveOutcome(k.kind, k.user, k.id)

\* The backend executes the request of call c on the ledger, in one transaction.
Execute(c) ==
    /\ call[c].pc = "fetching"
    /\ LET k == call[c]
           outcome == Outcome(k)
       IN /\ event_registrations' =
                IF k.kind = "event"
                THEN Applied(k.method, outcome, event_registrations, k.user, k.id)
                ELSE event_registrations
          /\ club_memberships' =
                IF k.kind = "club"
                THEN Applied(k.method, outcome, club_memberships, k.user, k.id)
                ELSE club_memberships
    /\ UNCHANGED <<users, events, clubs>>

\* The request is executed and api.request receives the response.
Serve(c) ==
    /\ Execute(c)
    /\ LET k == call[c]
           outcome == Outcome(k)
       IN /\ call' = [call EXCEPT
                        ![c].pc = "done",
                        ![c].outcome = outcome,
                        ![c].result = request(Response(outcome))]
          /\ before' = [rows |-> CopiesIn(<<k.user, k.id>>, Table(k.kind)),
                        count |-> DerivedCount(k.kind, k.id)]
    /\ order' = Executed(c)
    /\ UNCHANGED <<page, localStorage>>

\* The request is executed and the response is lost: the awaited fetch rejects.
ServeLost(c) ==
    /\ Execute(c)
    /\ call' = [call EXCEPT ![c].pc = "done", ![c].result = requestFailed]
    /\ order' = Executed(0)
    /\ before' = NotExecuted
    /\ UNCHANGED <<page, localStorage>>

\* The backend cannot reach the store: nothing is executed, the request fails.
StorageUnavailable(c) ==
    /\ call[c].pc = "fetching"
    /\ call' = [call EXCEPT ![c].pc = "done",
                            ![c].result = request(Response("StorageUnavailable"))]
    /\ UNCHANGED <<tables, ghost>>
    /\ UNCHANGED <<page, localStorage>>

\* The request never reaches the backend: the awaited fetch rejects.
requestFails(c) ==
    /\ call[c].pc = "fetching"
    /\ call' = [call EXCEPT ![c].pc = "done", ![c].result = requestFailed]
    /\ UNCHANGED <<tables, ghost>>
    /\ UNCHANGED <<page, localStorage>>

\* The caller has consumed the result: the call slot is free again.
Complete(c) ==
    /\ call[c].pc = "done"
    /\ call' = [call EXCEPT ![c] = IdleCall]
    /\ order' = Forget(c)
    /\ before' = IF LastCall = c THEN NotExecuted ELSE before
    /\ UNCHANGED tables
    /\ UNCHANGED <<page, localStorage>>

\* DELETE /events/{id} (admin deleteEvent): the row and, by cascade, its registrations
DeleteEvent(eventId) ==
    /\ eventId \in DOMAIN events
    /\ events' = [e \in DOMAIN events \ {eventId} |-> events[e]]
    /\ event_registrations' = CascadeResource(event_registrations, eventId)
    /\ order' = Executed(0)
    /\ before' = NotExecuted
    /\ UNCHANGED <<users, clubs, club_memberships, call>>
    /\ UNCHANGED <<page, localStorage>>

\* DELETE /clubs/{id} (admin deleteClub)
DeleteClub(clubId) ==
    /\ clubId \in DOMAIN clubs
    /\ clubs' = [c \in DOMAIN clubs \ {clubId} |-> clubs[c]]
    /\ club_memberships' = CascadeResource(club_memberships, clubId)
    /\ order' = Executed(0)
    /\ before' = NotExecuted
    /\ UNCHANGED <<users, events, event_registrations, call>>
    /\ UNCHANGED <<page, localStorage>>

\* DELETE FROM users WHERE id = user_id
DeleteUser(user_id) ==
    /\ user_id \in DOMAIN users
    /\ users' = [u \in DOMAIN users \ {user_id} |-> users[u]]
    /\ event_registrations' = CascadeUser(event_registrations, user_id)
    /\ club_memberships' = CascadeUser(club_memberships, user_id)
    /\ order' = Executed(0)
    /\ before' = NotExecuted
    /\ UNCHANGED <<events, clubs, call>>
    /\ UNCHANGED <<page, localStorage>>

Next ==
    \/ \E c \in Calls, u \in UserIds, e \in EventIds : registerForEvent(c, u, e)
    \/ \E c \in Calls, u \in UserIds, e \in EventIds : unregisterFromEvent(c, u, e)
    \/ \E c \in Calls, u \in UserIds, b \in ClubIds : joinClub(c, u, b)
    \/ \E c \in Calls, u \in UserIds, b \in ClubIds : leaveClub(c, u, b)
    \/ \E c \in Calls : Serve(c)
    \/ \E c \in Calls : ServeLost(c)
    \/ \E c \in Calls : StorageUnavailable(c)
    \/ \E c \in Calls : requestFails(c)
    \/ \E c \in Calls : Complete(c)
    \/ \E e \in EventIds : DeleteEvent(e)
    \/ \E b \in ClubIds : DeleteClub(b)
    \/ \E u \in UserIds : DeleteUser(u)

Spec == Init /\ [][Next]_vars

-----------------------------------------------------------------------------
\* The race of duplicate submissions: every call slot has issued the same
\* create request for one pair the ledger does not hold, over any ledger the
\* program can have built; the backend then serves the requests in some order.
Ledgers(ids) == {SetToBag(S) : S \in SUBSET (UserIds \X ids)}

InitRace ==
    /\ users = [u \in UserIds |-> NewUser]
    /\ events \in [EventIds -> {NewEvent(m) : m \in Caps}]
    /\ clubs = [c \in ClubIds |-> NewClub]
    /\ event_registrations \in Ledgers(EventIds)
    /\ club_memberships \in Ledgers(ClubIds)
    /\ \A e \in EventIds :
          events[e].max_participants # NULL
             => DerivedCount("event", e) <= events[e].max_participants[1]
    /\ \E u \in UserIds :
          \/ \E e \in EventIds :
                /\ CopiesIn(<<u, e>>, event_registrations) = 0
                /\ call = [c \in Calls |-> Fetch("registerForEvent", "POST", "event", u, e)]
          \/ \E b \in ClubIds :
                /\ CopiesIn(<<u, b>>, club_memberships) = 0
                /\ call = [c \in Calls |-> Fetch("joinClub", "POST", "club", u, b)]
    /\ order = <<>>
    /\ before = NotExecuted
    /\ page = NoPage
    /\ localStorage = NoItems

NextRace == \E c \in Calls : Serve(c)

SpecRace == InitRace /\ [][NextRace]_vars

-----------------------------------------------------------------------------
\* Vocabulary of the properties.  A call is a create or a remove by the api
\* function the client called, and is about the kind of resource that function
\* names, whatever request it sent.
IsCreate(k) == k.api \in {"registerForEvent", "joinClub"}

IsRemove(k) == k.api \in {"unregisterFromEvent", "leaveClub"}

KindOf(k) == IF k.api \in {"registerForEvent", "unregisterFromEvent"} THEN "event" ELSE "club"

Ids(kind) == IF kind = "event" THEN EventIds ELSE ClubIds

Rows(kind, u, id) == CopiesIn(<<u, id>>, Table(kind))

Present(kind, u, id) == u \in DOMAIN users /\ id \in Resources(kind)

\* The count a detail page shows for the resource
ShownCount(kind, id) ==
    IF kind = "event" THEN eventDetailRegCount(getEvent(id))
                      ELSE clubDetailMembers(getClub(id))

ActiveUsers(kind, id) == {u \in UserIds : isActive(u, kind, id)}

HasLimit(kind, id) ==
    kind = "event" /\ id \in DOMAIN events /\ events[id].max_participants # NULL

\* The resource had reached its capacity when the last call was executed
WasFull(kind, id) ==
    HasLimit(kind, id) /\ before.count >= events[id].max_participants[1]

SamePair(k, j) == KindOf(k) = KindOf(j) /\ k.user = j.user /\ k.id = j.id

Failed(k, error) == k.outcome = error /\ ~k.result.returned /\ k.result.error = error

Succeeded(k) == k.outcome = "ok" /\ k.result.returned

-----------------------------------------------------------------------------
\* C1 (uniqueness): in every reachable state each (user, resource) pair has at
\* most one active row in the relationship table of its kind.
Uniqueness ==
    \A kind \in Kinds : \A u \in UserIds : \A id \in Ids(kind) : Rows(kind, u, id) <= 1

\* A second create for a pair was executed right after the first succeeded,
\* and was rejected as a duplicate: the pair still has its single row.
UniquenessWitness ==
    /\ LastCall \in Calls /\ PrevCall \in Calls
    /\ LET k == call[LastCall]
           j == call[PrevCall]
       IN /\ IsCreate(j) /\ j.outcome = "ok"
          /\ IsCreate(k) /\ SamePair(k, j)
          /\ k.outcome = "DuplicateRelationship"
          /\ Rows(KindOf(k), k.user, k.id) = 1

\* C2 (count consistency): the count shown for a resource equals the number
\* of users for whom isActive(user, resource) holds, for every event and club.
CountConsistency ==
    \A kind \in Kinds : \A id \in Resources(kind) :
        ShownCount(kind, id) = Cardinality(ActiveUsers(kind, id))

\* Every user is registered for one event, and the page shows that many.
CountConsistencyWitness ==
    \E e \in DOMAIN events :
        /\ ShownCount("event", e) = NumUsers
        /\ ActiveUsers("event", e) = UserIds

\* C3 (create on absent pair): the last executed call being a create for a pair
\* that had no row, on an existing resource below its capacity, it succeeded,
\* the pair has exactly one row, isActive is true and the count grew by one.
CreateOnAbsent ==
    LastCall \in Calls =>
        LET k == call[LastCall]
            kind == KindOf(k)
        IN (/\ IsCreate(k)
            /\ Present(kind, k.user, k.id)
            /\ before.rows = 0
            /\ ~WasFull(kind, k.id))
           => /\ Succeeded(k)
              /\ Rows(kind, k.user, k.id) = 1
              /\ isActive(k.user, kind, k.id)
              /\ ShownCount(kind, k.id) = before.count + 1

\* A registration succeeded for an event that already had a participant.
CreateOnAbsentWitness ==
    /\ LastCall \in Calls
    /\ LET k == call[LastCall]
       IN /\ k.api = "registerForEvent" /\ Succeeded(k)
          /\ before.rows = 0 /\ before.count = 1
          /\ isActive(k.user, "event", k.id)
          /\ ShownCount("event", k.id) = 2

\* C4 (create on active pair): the last executed call being a create for a pair
\* that had a row, it failed with DuplicateRelationship, the client was given
\* that error and no success, no row was added and the count is unchanged.
DuplicateCreate ==
    LastCall \in Calls =>
        LET k == call[LastCall]
            kind == KindOf(k)
        IN (IsCreate(k) /\ before.rows >= 1)
           => /\ Failed(k, "DuplicateRelationship")
              /\ Rows(kind, k.user, k.id) = before.rows
              /\ Rows(kind, k.user, k.id) = 1
              /\ ShownCount(kind, k.id) = before.count

\* A member asked to join the club again and got DuplicateRelationship.
DuplicateCreateWitness ==
    /\ LastCall \in Calls
    /\ LET k == call[LastCall]
       IN /\ k.api = "joinClub" /\ before.rows = 1
          /\ Failed(k, "DuplicateRelationship")
          /\ ShownCount("club", k.id) = before.count

\* C5 (idempotent removal): a remove executed on an active pair succeeds, leaves
\* the pair absent and the count one lower; a remove of the same pair executed
\* right after it fails with NotFound and leaves pair and count as they were.
IdempotentRemoval ==
    LastCall \in Calls =>
        LET k == call[LastCall]
            kind == KindOf(k)
        IN IsRemove(k)
           => /\ before.rows >= 1
                 => /\ Succeeded(k)
                    /\ Rows(kind, k.user, k.id) = 0
                    /\ ShownCount(kind, k.id) = before.count - 1
              /\ (/\ PrevCall \in Calls
                  /\ IsRemove(call[PrevCall])
                  /\ SamePair(k, call[PrevCall])
                  /\ call[PrevCall].outcome = "ok")
                 => /\ Failed(k, "NotFound")
                    /\ Rows(kind, k.user, k.id) = 0
                    /\ ShownCount(kind, k.id) = before.count

\* Two removes of one pair were executed in succession: the first succeeded,
\* the second reported NotFound.
IdempotentRemovalWitness ==
    /\ LastCall \in Calls /\ PrevCall \in Calls
    /\ LET k == call[LastCall]
           j == call[PrevCall]
       IN /\ IsRemove(j) /\ Succeeded(j)
          /\ IsRemove(k) /\ SamePair(k, j)
          /\ Failed(k, "NotFound")
          /\ ~isActive(k.user, KindOf(k), k.id)

\* C6 (round trip): with no ledger operation executed since, isActive is true
\* for the pair of a create that succeeded and false for the pair of a remove.
RoundTrip ==
    LastCall \in Calls =>
        LET k == call[LastCall]
        IN /\ (IsCreate(k) /\ k.outcome = "ok") => isActive(k.user, KindOf(k), k.id)
           /\ (IsRemove(k) /\ k.outcome \in {"ok", "NotFound"})
                 => ~isActive(k.user, KindOf(k), k.id)

\* A create and then a remove of one pair both succeeded, and the pair is gone.
RoundTripWitness ==
    /\ LastCall \in Calls /\ PrevCall \in Calls
    /\ LET k == call[LastCall]
           j == call[PrevCall]
       IN /\ IsCreate(j) /\ Succeeded(j)
          /\ IsRemove(k) /\ SamePair(k, j) /\ Succeeded(k)
          /\ ~isActive(k.user, KindOf(k), k.id)

\* The calls of the race that have been served
Served == {c \in Calls : call[c].pc = "done"}

RaceOver == Served = Calls

\* The pair all calls of the race are about
RaceKind == KindOf(call[1])

RaceUser == call[1].user

RaceId == call[1].id

Winners == {c \in Calls : Succeeded(call[c])}

\* C7 (duplicate race), as stated: of N concurrent creates for one absent pair
\* the first served succeeds and raises the count by one, every later one
\* fails with DuplicateRelationship and changes nothing; at the end the pair
\* has one row, one call succeeded and N-1 got DuplicateRelationship.
DuplicateRace ==
    /\ LastCall \in Calls =>
          /\ IF Cardinality(Served) = 1
             THEN /\ Succeeded(call[LastCall])
                  /\ ShownCount(RaceKind, RaceId) = before.count + 1
             ELSE /\ Failed(call[LastCall], "DuplicateRelationship")
                  /\ ShownCount(RaceKind, RaceId) = before.count
          /\ Rows(RaceKind, RaceUser, RaceId) = 1
    /\ RaceOver =>
          /\ Rows(RaceKind, RaceUser, RaceId) = 1
          /\ Cardinality(Winners) = 1
          /\ \A c \in Calls \ Winners : Failed(call[c], "DuplicateRelationship")

\* C7 amended: the statement holds when the resource had not reached its
\* capacity when the first call was served; on an event that had, every call
\* fails with CapacityExceeded and the pair stays absent, the count unchanged.
DuplicateRaceBelowCapacity ==
    /\ LastCall \in Calls =>
          IF Rows(RaceKind, RaceUser, RaceId) = 0
          THEN /\ WasFull(RaceKind, RaceId)
               /\ Failed(call[LastCall], "CapacityExceeded")
               /\ ShownCount(RaceKind, RaceId) = before.count
          ELSE /\ Rows(RaceKind, RaceUser, RaceId) = 1
               /\ IF Cardinality(Served) = 1
                  THEN /\ ~WasFull(RaceKind, RaceId)
                       /\ Succeeded(call[LastCall])
                       /\ ShownCount(RaceKind, RaceId) = before.count + 1
                  ELSE /\ Failed(call[LastCall], "DuplicateRelationship")
                       /\ ShownCount(RaceKind, RaceId) = before.count
    /\ RaceOver =>
          IF Rows(RaceKind, RaceUser, RaceId) = 0
          THEN /\ AtCapacity(RaceKind, RaceId)
               /\ \A c \in Calls : Failed(call[c], "CapacityExceeded")
          ELSE /\ Rows(RaceKind, RaceUser, RaceId) = 1
               /\ Cardinality(Winners) = 1
               /\ \A c \in Calls \ Winners : Failed(call[c], "DuplicateRelationship")

\* The race is over on a resource that had room: one winner, the others
\* duplicates, one row.
DuplicateRaceWitness ==
    /\ RaceOver
    /\ Rows(RaceKind, RaceUser, RaceId) = 1
    /\ Cardinality(Winners) = 1
    /\ \A c \in Calls \ Winners : Failed(call[c], "DuplicateRelationship")

CapacityBoundary ==
    LastCall \in Calls =>
        LET k == call[LastCall]
        IN (/\ k.api = "registerForEvent"
            /\ Present("event", k.user, k.id)
            /\ HasLimit("event", k.id)
            /\ before.rows = 0)
           => /\ WasFull("event", k.id)
                 => /\ Failed(k, "CapacityExceeded")
                    /\ Rows("event", k.user, k.id) = 0
                    /\ ShownCount("event", k.id) = before.count
              /\ (/\ PrevCall \in Calls
                  /\ call[PrevCall].api = "unregisterFromEvent"
                  /\ call[PrevCall].id = k.id
                  /\ call[PrevCall].outcome = "ok"
                  /\ before.count = events[k.id].max_participants[1] - 1)
                 => /\ Succeeded(k)
                    /\ ShownCount("event", k.id) = events[k.id].max_participants[1]

\* One user left the full event, and the registration of another user that
\* followed succeeded: the event is full again.
CapacityBoundaryWitness ==
    /\ LastCall \in Calls /\ PrevCall \in Calls
    /\ LET k == call[LastCall]
           j == call[PrevCall]
       IN /\ j.api = "unregisterFromEvent" /\ Succeeded(j)
          /\ k.api = "registerForEvent" /\ k.id = j.id /\ k.user # j.user
          /\ Succeeded(k)
          /\ HasLimit("event", k.id)
          /\ ShownCount("event", k.id) = events[k.id].max_participants[1]

\* C10 (cascade on delete): every registration and membership references an
\* existing user and an existing event or club, and for every remaining
\* resource the count shown equals the number of existing users who are active.
CascadeOnDelete ==
    \A kind \in Kinds :
        /\ \A p \in DOMAIN Table(kind) : Present(kind, p[1], p[2])
        /\ \A id \in Resources(kind) :
              ShownCount(kind, id) =
                  Cardinality({u \in DOMAIN users : isActive(u, kind, id)})

\* A user with a registration and a membership was deleted: the event and the
\* club remain, and neither counts the user any more.
CascadeOnDeleteWitness ==
    /\ LastCall = 0 /\ PrevCall \in Calls
    /\ LET j == call[PrevCall]
       IN /\ IsCreate(j) /\ Succeeded(j)
          /\ j.user \notin DOMAIN users
          /\ j.id \in Resources(KindOf(j))
          /\ ~isActive(j.user, KindOf(j), j.id)
          /\ \E c \in Calls \ {PrevCall} :
                /\ IsCreate(call[c]) /\ Succeeded(call[c])
                /\ call[c].user = j.user /\ KindOf(call[c]) # KindOf(j)
                /\ call[c].id \in Resources(KindOf(call[c]))

\* listForUser(u, kind): the resource identifiers in the list the client gets
ListedFor(u, kind) ==
    IF kind = "event" THEN {r.event_id : r \in getMyEventRegistrations(u)}
                      ELSE {m.club_id : m \in getMyClubMemberships(u)}

\* C11 (isActive agrees with listForUser): in every state, for every user and
\* resource, the flag the client derives from the user's list is true exactly
\* when the resource is in that list, and exactly when the ledger holds the pair.
ActiveIffListed ==
    \A kind \in Kinds : \A u \in UserIds : \A id \in Ids(kind) :
        /\ isActive(u, kind, id) <=> id \in ListedFor(u, kind)
        /\ isActive(u, kind, id) <=> Rows(kind, u, id) >= 1

\* One user's list holds the event and the flag is true for that user, while
\* another user's list is empty and the flag is false.
ActiveIffListedWitness ==
    \E e \in EventIds : \E u \in UserIds : \E v \in UserIds \ {u} :
        /\ ListedFor(u, "event") = {e} /\ isActive(u, "event", e)
        /\ ListedFor(v, "event") = {} /\ ~isActive(v, "event", e)

\* The request of call c gets its response in this step
Answered(c) == call[c].pc = "fetching" /\ call'[c].pc = "done"

\* Call record k is about the pair (u, id) of the kind
About(k, kind, u, id) == KindOf(k) = kind /\ k.user = u /\ k.id = id

\* One step seen from the pair (u, id): a is its number of rows before, b after.
TwoStateStep(kind, u, id, a, b) ==
    /\ a \in {0, 1} /\ b \in {0, 1}
    /\ (a = 0 /\ b = 1)
          => \E c \in Calls :
                /\ Answered(c) /\ IsCreate(call[c]) /\ About(call[c], kind, u, id)
                /\ Outcome(call[c]) = "ok"
    /\ (a = 1 /\ b = 0)
          => \/ \E c \in Calls :
                   /\ Answered(c) /\ IsRemove(call[c]) /\ About(call[c], kind, u, id)
                   /\ Outcome(call[c]) = "ok"
             \/ u \notin DOMAIN users'
             \/ id \notin Resources(kind)'
    /\ \A c \in Calls :
          (Answered(c) /\ About(call[c], kind, u, id) /\ call'[c].outcome # "")
             => /\ (IsCreate(call[c]) /\ call'[c].outcome = "ok") => (a = 0 /\ b = 1)
                /\ (IsRemove(call[c]) /\ call'[c].outcome = "ok") => (a = 1 /\ b = 0)
                /\ call'[c].outcome # "ok" => a = b

\* C12 (two-state machine): in every step every pair is absent or active before
\* and after; it goes from absent to active only by a create that succeeds, from
\* active to absent only by a remove that succeeds or a cascading delete, and a
\* create or remove that fails leaves it as it was.
TwoStateMachine ==
    [][\A kind \in Kinds : \A u \in UserIds : \A id \in Ids(kind) :
          TwoStateStep(kind, u, id, Rows(kind, u, id), Rows(kind, u, id)')]_vars

\* A pair went from active to absent by a remove and back to active by a create.
TwoStateMachineWitness ==
    /\ LastCall \in Calls /\ PrevCall \in Calls
    /\ LET k == call[LastCall]
           j == call[PrevCall]
       IN /\ IsRemove(j) /\ Succeeded(j)
          /\ IsCreate(k) /\ SamePair(k, j) /\ Succeeded(k)
          /\ Rows(KindOf(k), k.user, k.id) = 1

\* Requests j and k are for different users or for different resources
Differ(j, k) == j.user # k.user \/ KindOf(j) # KindOf(k) \/ j.id # k.id

\* Requests j and k are for different resources, or for different users of a
\* resource on which capacity plays no part: it has no max_participants, or
\* neither request is a create.
Apart(j, k) ==
    \/ KindOf(j) # KindOf(k) \/ j.id # k.id
    \/ /\ j.user # k.user
       /\ ~HasLimit(KindOf(j), j.id) \/ (IsRemove(j) /\ IsRemove(k))

\* The step executes the request of call a while that of call b is in flight:
\* the outcome b will get and the rows of its pair are what they were.
Undisturbed(a, b) ==
    (Answered(a) /\ call[b].pc = "fetching" /\ call'[b].pc = "fetching")
       => /\ Outcome(call[b])' = Outcome(call[b])
          /\ Rows(KindOf(call[b]), call[b].user, call[b].id)'
                = Rows(KindOf(call[b]), call[b].user, call[b].id)

\* C13 (independence), as stated: of two requests in flight that differ in user
\* or in resource, executing one changes neither the outcome of the other nor
\* the state of its pair, so either order gives each request the same result
\* and the ledger the same final state.
Independence ==
    [][\A a \in Calls : \A b \in Calls \ {a} :
          Differ(call[a], call[b]) => Undisturbed(a, b)]_vars

\* C13 amended: the statement holds for two requests on different resources,
\* and for two requests by different users on the same resource unless that
\* resource is an event with max_participants and one of the two is a create.
IndependenceApart ==
    [][\A a \in Calls : \A b \in Calls \ {a} :
          Apart(call[a], call[b]) => Undisturbed(a, b)]_vars

\* One user's join was executed while another user's join of the same club was
\* in flight, and that one will succeed as well.
IndependenceWitness ==
    /\ LastCall \in Calls
    /\ \E b \in Calls \ {LastCall} :
          /\ call[LastCall].api = "joinClub" /\ Succeeded(call[LastCall])
          /\ call[b].pc = "fetching" /\ call[b].api = "joinClub"
          /\ call[b].id = call[LastCall].id /\ call[b].user # call[LastCall].user
          /\ Outcome(call[b]) = "ok"

-----------------------------------------------------------------------------
\* Retrying a create.  Call 1 is the first attempt, for a pair the ledger does
\* not hold; the caller never learns its outcome: the request is lost before
\* the backend, or executed with its response lost, or still on its way.  The
\* other calls are the retries of the same request, one after the other.
Retries == Calls \ {1}

InitRetry ==
    /\ users = [u \in UserIds |-> NewUser]
    /\ events \in [EventIds -> {NewEvent(m) : m \in Caps}]
    /\ clubs = [c \in ClubIds |-> NewClub]
    /\ event_registrations \in Ledgers(EventIds)
    /\ club_memberships \in Ledgers(ClubIds)
    /\ \A e \in EventIds :
          events[e].max_participants # NULL
             => DerivedCount("event", e) <= events[e].max_participants[1]
    /\ \E u \in UserIds :
          \/ \E e \in EventIds :
                /\ CopiesIn(<<u, e>>, event_registrations) = 0
                /\ call = [c \in Calls |->
                             IF c = 1 THEN Fetch("registerForEvent", "POST", "event", u, e)
                                      ELSE IdleCall]
          \/ \E b \in ClubIds :
                /\ CopiesIn(<<u, b>>, club_memberships) = 0
                /\ call = [c \in Calls |->
                             IF c = 1 THEN Fetch("joinClub", "POST", "club", u, b)
                                      ELSE IdleCall]
    /\ order = <<>>
    /\ before = NotExecuted
    /\ page = NoPage
    /\ localStorage = NoItems

\* The caller repeats the request of the first attempt
Retry(c) ==
    IF call[1].api = "registerForEvent"
    THEN registerForEvent(c, call[1].user, call[1].id)
    ELSE joinClub(c, call[1].user, call[1].id)

NextRetry ==
    \/ \E c \in Retries : Retry(c)
    \/ \E c \in Retries : Serve(c)
    \/ \E c \in Calls : ServeLost(c)
    \/ \E c \in Calls : requestFails(c)
    \/ \E c \in Retries : StorageUnavailable(c)
    \/ \E c \in Retries : Complete(c)

SpecRetry == InitRetry /\ [][NextRetry]_vars

\* The rows of the retried pair, and the count of its resource
RetryRows == Rows(KindOf(call[1]), call[1].user, call[1].id)

RetryCount == ShownCount(KindOf(call[1]), call[1].id)

\* The event of the retried pair is full without that pair
RetryBlocked == RetryRows = 0 /\ AtCapacity(KindOf(call[1]), call[1].id)

\* In every step the pair gains at most its one row and the count moves with it
RetryEffect ==
    /\ RetryRows' \in {0, 1}
    /\ RetryRows' >= RetryRows
    /\ RetryCount' = RetryCount + (RetryRows' - RetryRows)

\* The retry of call c is executed and answered in this step: it succeeds on
\* the absent pair or fails with DuplicateRelationship on the active one, and
\* the pair is active afterwards.
RetryAnswer(c) ==
    (Answered(c) /\ call'[c].outcome # "")
       => /\ \/ RetryRows = 0 /\ Succeeded(call'[c])
             \/ RetryRows = 1 /\ Failed(call'[c], "DuplicateRelationship")
          /\ RetryRows' = 1

-----------------------------------------------------------------------------
\* The detail page of an event or a club, open in the browser of a signed-in
\* user: page.flag is isRegistered / isMember, page.shown the count in
\* eventDetailRegCount / clubDetailMembers, page.toast the last toast shown.
\* Other users send their requests meanwhile.

\* api.request up to its await, for a GET: the response body is the data read
Read(api, kind, user_id, id) ==
    [Fetch(api, "GET", kind, user_id, id) EXCEPT !.pc = "reading"]

\* loadEventDetail / loadClubDetail have rendered the resource they got, and
\* have called checkEventRegistration / checkClubMembership, whose request
\* for the user's list is in flight.  The table of the other kind plays no
\* part and is left empty.
InitPage ==
    /\ users = [u \in UserIds |-> NewUser]
    /\ events \in [EventIds -> {NewEvent(m) : m \in Caps}]
    /\ clubs = [c \in ClubIds |-> NewClub]
    /\ \E u \in UserIds :
          \/ \E e \in EventIds :
                /\ event_registrations \in Ledgers(EventIds)
                /\ club_memberships = EmptyBag
                /\ page = [kind |-> "event", user |-> u, id |-> e, flag |-> FALSE,
                           shown |-> eventDetailRegCount(getEvent(e)), toast |-> ""]
                /\ call = [c \in Calls |->
                             IF c = 1 THEN Read("getMyEventRegistrations", "event", u, e)
                                      ELSE IdleCall]
          \/ \E b \in ClubIds :
                /\ event_registrations = EmptyBag
                /\ club_memberships \in Ledgers(ClubIds)
                /\ page = [kind |-> "club", user |-> u, id |-> b, flag |-> FALSE,
                           shown |-> clubDetailMembers(getClub(b)), toast |-> ""]
                /\ call = [c \in Calls |->
                             IF c = 1 THEN Read("getMyClubMemberships", "club", u, b)
                                      ELSE IdleCall]
    /\ \A e \in EventIds :
          events[e].max_participants # NULL
             => DerivedCount("event", e) <= events[e].max_participants[1]
    /\ order = <<>>
    /\ before = NotExecuted
    /\ localStorage = Stored(Token(page.user), UserData(page.user))

\* What a GET returns: the user's list, or the club with its derived count
Data(k) ==
    IF k.api = "getMyEventRegistrations" THEN getMyEventRegistrations(k.user)
    ELSE IF k.api = "getMyClubMemberships" THEN getMyClubMemberships(k.user)
    ELSE {getClub(k.id)}

\* The backend answers the GET of call c
ServeRead(c) ==
    /\ call[c].pc = "reading"
    /\ call' = [call EXCEPT ![c].pc = "done",
                            ![c].result = request(Response("ok")),
                            ![c].body = Data(call[c])]
    /\ UNCHANGED <<tables, ghost, page, localStorage>>

\* The GET of call c fails: the store is unavailable, or fetch rejects
ReadFails(c) ==
    /\ call[c].pc = "reading"
    /\ \E result \in {request(Response("StorageUnavailable")), requestFailed} :
          call' = [call EXCEPT ![c].pc = "done", ![c].result = result]
    /\ UNCHANGED <<tables, ghost, page, localStorage>>

\* The handler that awaited call c goes on; the call slot is free again
Resume(c) ==
    /\ call[c].pc = "done"
    /\ call[c].user = page.user
    /\ order' = Forget(c)
    /\ before' = IF LastCall = c THEN NotExecuted ELSE before
    /\ UNCHANGED <<tables, localStorage>>

\* checkEventRegistration after its await: isRegistered is set from the list;
\* the catch block leaves it as it is.
checkEventRegistrationAwaited(c) ==
    /\ Resume(c)
    /\ call[c].api = "getMyEventRegistrations"
    /\ page' = IF call[c].result.returned
               THEN [page EXCEPT !.flag = checkEventRegistration(call[c].body, page.id)]
               ELSE page
    /\ call' = [call EXCEPT ![c] = IdleCall]

\* checkClubMembership after its await
checkClubMembershipAwaited(c) ==
    /\ Resume(c)
    /\ call[c].api = "getMyClubMemberships"
    /\ page' = IF call[c].result.returned
               THEN [page EXCEPT !.flag = checkClubMembership(call[c].body, page.id)]
               ELSE page
    /\ call' = [call EXCEPT ![c] = IdleCall]

\* toggleEventRegistration without its isLoggedIn() check
toggleEventRegistration_noLoginCheck(c) ==
    /\ page.kind = "event"
    /\ page.id # 0
    /\ IF page.flag THEN unregisterFromEvent(c, page.user, page.id)
                    ELSE registerForEvent(c, page.user, page.id)

\* toggleEventRegistration up to its await: not signed in, it goes to the
\* login page; without an event id it returns; else it sends
\* unregisterFromEvent if isRegistered and registerForEvent otherwise.
toggleEventRegistration(c) ==
    /\ page.kind = "event"
    /\ IF ~isLoggedIn
       THEN /\ page' = [page EXCEPT !.kind = "login.html"]
            /\ UNCHANGED <<tables, call, ghost, localStorage>>
       ELSE /\ page.id # 0
            /\ IF page.flag THEN unregisterFromEvent(c, page.user, page.id)
                            ELSE registerForEvent(c, page.user, page.id)

\* toggleEventRegistration setting isRegistered before it awaits the request,
\* so that a failed request leaves the flag flipped
toggleEventRegistrationAwaited_optimistic(c) ==
    /\ Resume(c)
    /\ call[c].api \in {"registerForEvent", "unregisterFromEvent"}
    /\ page' = [page EXCEPT !.flag = call[c].api = "registerForEvent",
                            !.toast = IF call[c].result.returned THEN "Successfully registered!"
                                      ELSE call[c].result.error]
    /\ call' = [call EXCEPT ![c] = IdleCall]

\* toggleEventRegistration after its await: isRegistered is set and the button
\* updated, or the catch block shows the error's message.
toggleEventRegistrationAwaited(c) ==
    /\ Resume(c)
    /\ call[c].api \in {"registerForEvent", "unregisterFromEvent"}
    /\ page' = IF ~call[c].result.returned
               THEN [page EXCEPT !.toast = call[c].result.error]
               ELSE IF call[c].api = "unregisterFromEvent"
               THEN [page EXCEPT !.flag = FALSE, !.toast = "Unregistered from event"]
               ELSE [page EXCEPT !.flag = TRUE, !.toast = "Successfully registered!"]
    /\ call' = [call EXCEPT ![c] = IdleCall]

\* toggleClubMembership up to its first await
toggleClubMembership(c) ==
    /\ page.kind = "club"
    /\ IF ~isLoggedIn
       THEN /\ page' = [page EXCEPT !.kind = "login.html"]
            /\ UNCHANGED <<tables, call, ghost, localStorage>>
       ELSE /\ page.id # 0
            /\ IF page.flag THEN leaveClub(c, page.user, page.id)
                            ELSE joinClub(c, page.user, page.id)

\* toggleClubMembership after its first await: isMember is set and the button
\* updated, then the club is requested again; or the catch block.
toggleClubMembershipAwaited(c) ==
    /\ Resume(c)
    /\ call[c].api \in {"joinClub", "leaveClub"}
    /\ IF ~call[c].result.returned
       THEN /\ page' = [page EXCEPT !.toast = call[c].result.error]
            /\ call' = [call EXCEPT ![c] = IdleCall]
       ELSE /\ page' = IF call[c].api = "leaveClub"
                       THEN [page EXCEPT !.flag = FALSE, !.toast = "Left the club"]
                       ELSE [page EXCEPT !.flag = TRUE, !.toast = "Welcome to the club!"]
            /\ call' = [call EXCEPT ![c] = Read("getClub", "club", page.user, page.id)]

\* toggleClubMembership requesting the club again each time it has got it
toggleClubMembershipReloaded_again(c) ==
    /\ Resume(c)
    /\ call[c].api = "getClub"
    /\ page' = IF call[c].result.returned
               THEN [page EXCEPT !.shown = clubDetailMembers(CHOOSE club \in call[c].body : TRUE)]
               ELSE [page EXCEPT !.toast = call[c].result.error]
    /\ call' = [call EXCEPT ![c] = Read("getClub", "club", page.user, page.id)]

\* toggleClubMembership after its second await: the member count is shown
\* again from the club it got; or the catch block.
toggleClubMembershipReloaded(c) ==
    /\ Resume(c)
    /\ call[c].api = "getClub"
    /\ page' = IF call[c].result.returned
               THEN [page EXCEPT !.shown = clubDetailMembers(CHOOSE club \in call[c].body : TRUE)]
               ELSE [page EXCEPT !.toast = call[c].result.error]
    /\ call' = [call EXCEPT ![c] = IdleCall]

\* The users who are not the one of the page
Others == UserIds \ {page.user}

\* A request of another user for the resource of the page, sent from another
\* browser, is executed and changes the ledger.
Elsewhere(u, method) ==
    LET k == Fetch("", method, page.kind, u, page.id)
    IN /\ Outcome(k) = "ok"
       /\ event_registrations' =
             IF k.kind = "event"
             THEN Applied(method, "ok", event_registrations, u, k.id)
             ELSE event_registrations
       /\ club_memberships' =
             IF k.kind = "club"
             THEN Applied(method, "ok", club_memberships, u, k.id)
             ELSE club_memberships
       /\ order' = Executed(0)
       /\ before' = NotExecuted
       /\ UNCHANGED <<users, events, clubs, call, page, localStorage>>

\* The steps of the page and of its own requests
NextOwn ==
    \/ \E c \in Calls : toggleEventRegistration(c)
    \/ \E c \in Calls : toggleEventRegistrationAwaited(c)
    \/ \E c \in Calls : toggleClubMembership(c)
    \/ \E c \in Calls : toggleClubMembershipAwaited(c)
    \/ \E c \in Calls : toggleClubMembershipReloaded(c)
    \/ \E c \in Calls : checkEventRegistrationAwaited(c)
    \/ \E c \in Calls : checkClubMembershipAwaited(c)
    \/ \E c \in Calls : ServeRead(c)
    \/ \E c \in Calls : ReadFails(c)
    \/ \E c \in Calls : Serve(c)
    \/ \E c \in Calls : ServeLost(c)
    \/ \E c \in Calls : StorageUnavailable(c)
    \/ \E c \in Calls : requestFails(c)

NextPage ==
    \/ NextOwn
    \/ \E u \in Others, method \in {"POST", "DELETE"} : Elsewhere(u, method)

SpecPage == InitPage /\ [][NextPage]_vars

-----------------------------------------------------------------------------
\* The conditions of the error taxonomy
Conditions == {"DuplicateRelationship", "NotFound", "CapacityExceeded", "StorageUnavailable"}

\* What api.request gave its caller for the finished call k: a value only for
\* an OK response, and otherwise the condition the backend reported, or the
\* rejection of fetch.
Propagated(k) ==
    /\ k.result.returned
          => /\ k.result.error = ""
             /\ k.method # "GET" => k.outcome = "ok"
    /\ ~k.result.returned
          => /\ k.result.error \in Conditions \cup {requestFailed.error}
             /\ k.outcome \notin {"", "ok"} => k.result.error = k.outcome
    /\ k.outcome \in {"", "ok"} \cup Conditions
    /\ k.outcome \in Conditions => ~k.result.returned

\* The handler that awaited call c runs its catch block in this step: the
\* toggles show the message of the error, the checks leave the flag alone,
\* and neither flag nor count is set as if the request had succeeded.
Caught(c) ==
    (call[c].pc = "done" /\ call'[c].pc # "done" /\ ~call[c].result.returned)
       => /\ call'[c] = IdleCall
          /\ page'.flag = page.flag /\ page'.shown = page.shown
          /\ IF call[c].api \in {"getMyEventRegistrations", "getMyClubMemberships"}
             THEN page' = page
             ELSE page'.toast = call[c].result.error

ToggleCompletes(c) ==
    /\ call[c].pc = "done" /\ call'[c].pc = "idle"
    /\ \/ call[c].api \in {"registerForEvent", "unregisterFromEvent"} /\ call[c].result.returned
       \/ call[c].api = "getClub"

\* The flag of the page is the state of the pair in the ledger
FlagCurrent == page.flag = isActive(page.user, page.kind, page.id)

\* The count the page shows is the derived count of the resource
CountCurrent == page.shown = ShownCount(page.kind, page.id)

\* C16 (view update): when a toggle handler completes after a successful
\* state change, the flag of the page is the ledger's state of the pair and
\* the count the page shows is the derived count of the resource.
ViewUpdated ==
    [][\A c \in Calls : ToggleCompletes(c) => (FlagCurrent' /\ CountCurrent')]_vars

-----------------------------------------------------------------------------
\* The step executes a create or remove on the resource, and it succeeds
ChangesCount(kind, id) ==
    \E c \in Calls :
        /\ call[c].pc = "fetching" /\ call'[c].pc = "done"
        /\ KindOf(call[c]) = kind /\ call[c].id = id
        /\ IsCreate(call[c]) \/ IsRemove(call[c])
        /\ Outcome(call[c]) = "ok"

\* The step deletes a user, an event or a club
Deletes == users' # users \/ events' # events \/ clubs' # clubs

\* The step is one of a register / unregister / join / leave call
LedgerCallStep == call' # call

\* C17 (frame): in every step, the derived count of a resource changes only if
\* the step executes a successful create or remove on that resource, or is a
\* delete that cascades; and a step of a register / unregister / join / leave
\* call changes no user, event or club row, and no rows of a pair other than
\* the pair of the call that is executed.
Frame ==
    [][/\ \A kind \in Kinds : \A id \in Ids(kind) :
             DerivedCount(kind, id)' # DerivedCount(kind, id)
                => (ChangesCount(kind, id) \/ Deletes)
       /\ LedgerCallStep
             => /\ users' = users /\ events' = events /\ clubs' = clubs
                /\ \A kind \in Kinds : \A u \in UserIds : \A id \in Ids(kind) :
                      Rows(kind, u, id)' # Rows(kind, u, id)
                         => \E c \in Calls :
                               Answered(c) /\ About(call[c], kind, u, id)]_vars

\* A join was executed and succeeded for a club that had a member, while a
\* registration exists: the other rows and the event are as they were.
FrameWitness ==
    /\ LastCall \in Calls
    /\ call[LastCall].api = "joinClub" /\ Succeeded(call[LastCall])
    /\ before.count = 1
    /\ ShownCount("club", call[LastCall].id) = 2
    /\ \E e \in DOMAIN events : ShownCount("event", e) >= 1

-----------------------------------------------------------------------------
\* Fair scheduling of the page and its own requests: the request of a call in
\* flight is answered by the backend or fails (fetch settles), and a handler
\* whose awaited call has settled is resumed by the event loop.  What other
\* users do has no part in it.
Settles(c) ==
    \/ Serve(c) \/ ServeLost(c) \/ StorageUnavailable(c) \/ requestFails(c)
    \/ ServeRead(c) \/ ReadFails(c)

Resumes(c) ==
    \/ toggleEventRegistrationAwaited(c)
    \/ toggleClubMembershipAwaited(c)
    \/ toggleClubMembershipReloaded(c)
    \/ checkEventRegistrationAwaited(c)
    \/ checkClubMembershipAwaited(c)

SpecPageFair ==
    /\ InitPage /\ [][NextOwn]_vars
    /\ \A c \in Calls : WF_vars(Settles(c)) /\ WF_vars(Resumes(c))

-----------------------------------------------------------------------------
\* The admin dashboard: promoting users and editing events.  The requests
\* are those of the client; the handlers that execute them are modelled from
\* the written specification and the endpoint table of the README.

\* users.role CHECK (role IN ('student', 'admin'))
Roles == {"student", "admin"}

\* events.status CHECK (status IN ('upcoming', 'ongoing', 'completed', 'cancelled'))
Statuses == {"upcoming", "ongoing", "completed", "cancelled"}

\* demoLogin / demoAdminLogin: a session made in the browser alone; the ids
\* 'demo-user-001' and 'demo-admin-001' are rows of no table
demoUser == [id |-> 0, role |-> "student"]

demoAdmin == [id |-> -1, role |-> "admin"]

demoToken == <<"demo-token-not-for-production">>

demoAdminToken == <<"demo-admin-token">>

\* The user the backend takes a request to come from: the subject of the
\* token it issued, and nobody (0) without a token or with one it did not issue
Subject(access_token) ==
    IF access_token = NULL THEN 0
    ELSE IF Len(access_token[1]) = 2 THEN access_token[1][2]
    ELSE 0

\* The sessions a browser can hold: a demo session, or the token and user
\* data of a Google login; the stored role is the one the user had at login,
\* student if the user was promoted since.
Sessions ==
    {Stored(demoToken, demoUser), Stored(demoAdminToken, demoAdmin)}
    \cup UNION {{Stored(Token(u), [id |-> u, role |-> r]) :
                    r \in {"student", users[u].role}} : u \in UserIds}

\* The database after set-up: one user has been made admin by hand, the
\* events are as created.  initAdminDashboard has run in a signed-in browser:
\* it has shown its toast if the stored role is not admin, and has gone on to
\* load the tables.
InitAdmin ==
    /\ \E a \in UserIds :
          users = [u \in UserIds |-> IF u = a THEN [NewUser EXCEPT !.role = "admin"]
                                               ELSE NewUser]
    /\ events \in [EventIds -> {NewEvent(m) : m \in Caps}]
    /\ clubs = [c \in ClubIds |-> NewClub]
    /\ event_registrations = EmptyBag
    /\ club_memberships = EmptyBag
    /\ call = [c \in Calls |-> IdleCall]
    /\ order = <<>>
    /\ before = NotExecuted
    /\ localStorage \in Sessions
    /\ page = [NoPage EXCEPT !.kind = "admin",
                             !.user = getCurrentUser[1].id,
                             !.toast = IF getUserRole # "admin"
                                       THEN "Admin access required. Use demo admin login for testing."
                                       ELSE ""]

\* promoteUser(userId) up to its await (confirmed): api.makeAdmin(userId),
\* PUT /auth/make-admin/{id}, sent with the stored token, whose subject is user_id
promoteUser(c, user_id, userId) ==
    /\ call[c].pc = "idle"
    /\ call' = [call EXCEPT ![c] = Fetch("makeAdmin", "PUT", "user", user_id, userId)]
    /\ UNCHANGED <<tables, ghost, page, localStorage>>

\* handleEventSubmit for an existing event, up to its await: the form data
\* with data.status taken from the eventStatus field go to
\* api.updateEvent(eventId, data), PUT /events/{id}
handleEventSubmit(c, user_id, eventId, status) ==
    /\ call[c].pc = "idle"
    /\ call' = [call EXCEPT ![c] =
                   [Fetch("updateEvent", "PUT", "event", user_id, eventId)
                       EXCEPT !.body = {[status |-> status]}]]
    /\ UNCHANGED <<tables, ghost, page, localStorage>>

\* PUT /auth/make-admin/{id}: the user is given the role admin
MakeAdmin_toggle(userId) ==
    [users EXCEPT ![userId].role = IF @ = "admin" THEN "student" ELSE "admin"]

MakeAdmin(userId) == [users EXCEPT ![userId].role = "admin"]

\* PUT /events/{id}: the fields of the request body are written to the row
UpdateEvent(eventId, data) == [events EXCEPT ![eventId].status = data.status]

\* The outcome of an admin request: the caller must be an admin, the row must
\* exist, and the row written must pass the CHECK constraints of its table.
AdminOutcome(k) ==
    IF k.user \notin DOMAIN users \/ users[k.user].role # "admin" THEN "Forbidden"
    ELSE IF k.api = "makeAdmin"
    THEN IF k.id \in DOMAIN users THEN "ok" ELSE "NotFound"
    ELSE IF k.id \notin DOMAIN events THEN "NotFound"
    ELSE IF \E data \in k.body : data.status \notin Statuses THEN "Invalid"
    ELSE "ok"

\* The backend executes the admin request of call c and answers
ServeAdmin(c) ==
    /\ call[c].pc = "fetching"
    /\ LET k == call[c]
           outcome == AdminOutcome(k)
       IN /\ users' = IF outcome = "ok" /\ k.api = "makeAdmin" THEN MakeAdmin(k.id) ELSE users
          /\ events' = IF outcome = "ok" /\ k.api = "updateEvent"
                       THEN UpdateEvent(k.id, CHOOSE data \in k.body : TRUE)
                       ELSE events
          /\ call' = [call EXCEPT ![c].pc = "done",
                                  ![c].outcome = outcome,
                                  ![c].result = request(Response(outcome))]
    /\ UNCHANGED <<clubs, event_registrations, club_memberships, ghost, page, localStorage>>

NextAdmin ==
    \/ \E c \in Calls, u \in UserIds :
          promoteUser(c, Subject(localStorage.access_token), u)
    \/ \E c \in Calls, e \in EventIds, status \in Statuses :
          handleEventSubmit(c, Subject(localStorage.access_token), e, status)
    \/ \E c \in Calls : ServeAdmin(c)
    \/ \E c \in Calls : StorageUnavailable(c)
    \/ \E c \in Calls : requestFails(c)
    \/ \E c \in Calls : Complete(c)

SpecAdmin == InitAdmin /\ [][NextAdmin]_vars

\* An answered make-admin request for user u
Promotes(c, u) ==
    /\ Answered(c)
    /\ call[c].api = "makeAdmin"
    /\ call[c].id = u

\* C19: a user's role is always student or admin; an admin stays admin; and
\* a role changes only from student to admin, in the step in which the
\* backend executes a make-admin request for that user.
RolePromotion ==
    [][\A u \in UserIds :
          /\ users[u].role \in Roles
          /\ users'[u].role \in Roles
          /\ users[u].role = "admin" => users'[u].role = "admin"
          /\ users'[u].role # users[u].role =>
                /\ users[u].role = "student"
                /\ users'[u].role = "admin"
                /\ \E c \in Calls : Promotes(c, u)]_vars

\* A make-admin request has succeeded for a user other than its sender, and
\* every user is now admin (one user was admin at the start).
RolePromotionWitness ==
    /\ \A u \in UserIds : users[u].role = "admin"
    /\ \E c \in Calls :
          /\ call[c].pc = "done"
          /\ call[c].api = "makeAdmin"
          /\ call[c].outcome = "ok"
          /\ call[c].id # call[c].user

\* The steps of the event lifecycle: upcoming to ongoing to completed, and
\* to cancelled from a state that is not terminal
LifecycleStep(a, b) ==
    \/ a = "upcoming" /\ b = "ongoing"
    \/ a = "ongoing" /\ b = "completed"
    \/ a \in {"upcoming", "ongoing"} /\ b = "cancelled"

\* C20: an event's status is always one of upcoming, ongoing, completed and
\* cancelled; it changes only by a step of the lifecycle; completed and
\* cancelled are final.
EventLifecycle ==
    [][\A e \in EventIds :
          /\ events[e].status \in Statuses
          /\ events'[e].status \in Statuses
          /\ events'[e].status # events[e].status =>
                LifecycleStep(events[e].status, events'[e].status)]_vars

\* The requests of the admin-only endpoints that the dashboard sends
AdminApis == {"makeAdmin", "updateEvent"}

\* Call c is issued in this step, for an admin-only endpoint
IssuesAdmin(c) ==
    /\ call[c].pc = "idle"
    /\ call'[c].pc = "fetching"
    /\ call'[c].api \in AdminApis

\* C21: an admin-only request is issued from the admin dashboard, and is
\* carried out by the backend, only on behalf of a session whose user has
\* the role admin; a signed-in student never causes one to be issued.
AdminOnly ==
    [][\A c \in Calls :
          /\ IssuesAdmin(c) => getUserRole = "admin"
          /\ (Answered(c) /\ call[c].api \in AdminApis /\ call'[c].outcome = "ok")
                => getUserRole = "admin"]_vars

-----------------------------------------------------------------------------
\* The data loaders of the pages.  A page starts its loaders when it is
\* opened; each loader awaits its GET requests, then renders what it got or
\* its fallback.  page.settled holds, per loader, how each of its requests
\* ended; page.shown what the loader has put into the document (<<>> before).

\* The loaders each page starts
LoadersOf(html) ==
    CASE html = "events.html" -> {"loadEvents"}
      [] html = "event-detail.html" -> {"loadEventDetail"}
      [] html = "clubs.html" -> {"loadClubs"}
      [] html = "club-detail.html" -> {"loadClubDetail"}
      [] html = "dashboard.html" -> {"loadDashboardStats", "loadMyEvents", "loadMyClubs"}
      [] html = "admin.html" ->
            {"loadAdminStats", "loadAdminEvents", "loadAdminClubs", "loadAdminUsers"}

Htmls ==
    {"events.html", "event-detail.html", "clubs.html", "club-detail.html", "dashboard.html",
     "admin.html"}

\* The requests a loader awaits: the two stats loaders await three at once
\* with Promise.allSettled, every other loader awaits one
Requests(loader) ==
    CASE loader = "loadDashboardStats" ->
            <<"getEvents", "getMyEventRegistrations", "getMyClubMemberships">>
      [] loader = "loadAdminStats" -> <<"getEvents", "getClubs", "getAllUsers">>
      [] loader = "loadEvents" -> <<"getEvents">>
      [] loader = "loadEventDetail" -> <<"getEvent">>
      [] loader = "loadClubs" -> <<"getClubs">>
      [] loader = "loadClubDetail" -> <<"getClub">>
      [] loader = "loadMyEvents" -> <<"getMyEventRegistrations">>
      [] loader = "loadMyClubs" -> <<"getMyClubMemberships">>
      [] loader = "loadAdminEvents" -> <<"getEvents">>
      [] loader = "loadAdminClubs" -> <<"getClubs">>
      [] loader = "loadAdminUsers" -> <<"getAllUsers">>

\* A page has been opened in a signed-in browser and has started its loaders
InitDemo ==
    /\ users = [u \in UserIds |-> NewUser]
    /\ events = [e \in EventIds |-> NewEvent(NULL)]
    /\ clubs = [c \in ClubIds |-> NewClub]
    /\ event_registrations \in Ledgers(EventIds)
    /\ club_memberships = EmptyBag
    /\ call = [c \in Calls |-> IdleCall]
    /\ order = <<>>
    /\ before = NotExecuted
    /\ localStorage \in Sessions
    /\ \E html \in Htmls :
          page = [kind |-> html,
                  settled |-> [l \in LoadersOf(html) |->
                                  [i \in 1..Len(Requests(l)) |-> "pending"]],
                  shown |-> [l \in LoadersOf(html) |-> <<>>]]

\* Request i of a loader gets its response: api.request returns the data
Fulfil(loader, i) ==
    /\ page.settled[loader][i] = "pending"
    /\ page' = [page EXCEPT !.settled[loader][i] = "fulfilled"]
    /\ UNCHANGED <<tables, call, ghost, localStorage>>

\* Request i of a loader fails: api.request throws
Reject(loader, i) ==
    /\ page.settled[loader][i] = "pending"
    /\ page' = [page EXCEPT !.settled[loader][i] = "rejected"]
    /\ UNCHANGED <<tables, call, ghost, localStorage>>

\* The loader goes on after its await: all its requests have settled and it
\* has rendered nothing yet
Awaited(loader) ==
    /\ loader \in DOMAIN page.shown
    /\ \A i \in DOMAIN page.settled[loader] : page.settled[loader][i] # "pending"
    /\ page.shown[loader] = <<>>
    /\ UNCHANGED <<tables, call, ghost, localStorage>>

fulfilled(loader, i) == page.settled[loader][i] = "fulfilled"

\* try { render(await api.get...()) } catch { renderDemo...() }: what the
\* loader puts into the document is the API's data or its demo fixture
TryCatch(loader) ==
    /\ Awaited(loader)
    /\ page' = [page EXCEPT !.shown[loader] =
                   IF fulfilled(loader, 1) THEN <<"api">> ELSE <<"demo">>]

loadEvents == TryCatch("loadEvents")

loadEventDetail == TryCatch("loadEventDetail")

loadClubs == TryCatch("loadClubs")

loadClubDetail == TryCatch("loadClubDetail")

loadMyEvents == TryCatch("loadMyEvents")

loadMyClubs == TryCatch("loadMyClubs")

loadAdminEvents == TryCatch("loadAdminEvents")

loadAdminClubs == TryCatch("loadAdminClubs")

loadAdminUsers == TryCatch("loadAdminUsers")

\* The lengths of the lists the stats loaders count
upcoming == {e \in DOMAIN events : events[e].status = "upcoming"}

totalRegs == BagCardinality(event_registrations)

\* loadDashboardStats: Promise.allSettled never rejects, so the try block
\* runs to its end: a rejected request counts 0, statNotifications is '0'
loadDashboardStats ==
    /\ Awaited("loadDashboardStats")
    /\ LET me == Subject(localStorage.access_token)
           upcomingCount == IF fulfilled("loadDashboardStats", 1)
                            THEN Cardinality(upcoming) ELSE 0
           regCount == IF fulfilled("loadDashboardStats", 2)
                       THEN Cardinality(getMyEventRegistrations(me)) ELSE 0
           clubCount == IF fulfilled("loadDashboardStats", 3)
                        THEN Cardinality(getMyClubMemberships(me)) ELSE 0
       IN page' = [page EXCEPT !.shown["loadDashboardStats"] =
                      <<ToString(upcomingCount), ToString(regCount), ToString(clubCount), "0">>]

\* loadAdminStats: likewise; a rejected request shows a dash, and the sum
\* of the registration counts is 0 without the events
loadAdminStats ==
    /\ Awaited("loadAdminStats")
    /\ LET dash == "-"
           adminStatEvents == IF fulfilled("loadAdminStats", 1)
                              THEN ToString(Cardinality(DOMAIN events)) ELSE dash
           adminStatClubs == IF fulfilled("loadAdminStats", 2)
                             THEN ToString(Cardinality(DOMAIN clubs)) ELSE dash
           adminStatUsers == IF fulfilled("loadAdminStats", 3)
                             THEN ToString(Cardinality(DOMAIN users)) ELSE dash
           adminStatRegistrations == IF fulfilled("loadAdminStats", 1)
                                     THEN ToString(totalRegs) ELSE "0"
       IN page' = [page EXCEPT !.shown["loadAdminStats"] =
                      <<adminStatEvents, adminStatClubs, adminStatUsers,
                        adminStatRegistrations>>]

NextDemo ==
    \/ \E l \in DOMAIN page.shown, i \in 1..3 : i \in DOMAIN page.settled[l] /\ Fulfil(l, i)
    \/ \E l \in DOMAIN page.shown, i \in 1..3 : i \in DOMAIN page.settled[l] /\ Reject(l, i)
    \/ loadEvents
    \/ loadEventDetail
    \/ loadClubs
    \/ loadClubDetail
    \/ loadMyEvents
    \/ loadMyClubs
    \/ loadAdminEvents
    \/ loadAdminClubs
    \/ loadAdminUsers
    \/ loadDashboardStats
    \/ loadAdminStats

SpecDemo == InitDemo /\ [][NextDemo]_vars

\* The values of the demo fixture of a loader: the catch blocks of the stats
\* loaders, the demo renderers of the others
Fixture(loader) ==
    CASE loader = "loadDashboardStats" -> <<"12", "3", "2", "5">>
      [] loader = "loadAdminStats" -> <<"15", "8", "250", "120">>
      [] OTHER -> <<"demo">>

\* Every request of the loader has failed
Unavailable(loader) ==
    \A i \in DOMAIN page.settled[loader] : page.settled[loader][i] = "rejected"

\* C22: when every request of a page has failed, each loader of the page
\* that has finished displays the values of its demo fixture.
DemoMode ==
    (\A l \in DOMAIN page.shown : Unavailable(l))
       => \A l \in DOMAIN page.shown : page.shown[l] # <<>> => page.shown[l] = Fixture(l)

-----------------------------------------------------------------------------
\* The session of one browser: signing in with Google or with the demo
\* logins, logging out, and the requests sent meanwhile.  page.kind is the
\* document that is open, page.toast the last toast, page.redirect the
\* document a pending setTimeout will navigate to ("" without one).

\* api.request without its `if (token)` block: no Authorization header
Issue_noToken(api, method, kind, id) == Fetch(api, method, kind, 0, id)

\* api.request up to its await, in this browser: the token is read from
\* localStorage when the request is issued
Issue(api, method, kind, id) ==
    [Fetch(api, method, kind, Subject(localStorage.access_token), id)
        EXCEPT !.headers = Headers(localStorage.access_token)]

\* The ID tokens Google can hand to handleGoogleCallback: one for the account
\* of a user, or one the backend will not accept (0)
Credentials == UserIds \cup {0}

InitSession ==
    /\ users \in [UserIds -> {NewUser, [NewUser EXCEPT !.role = "admin"]}]
    /\ events = [e \in EventIds |-> NewEvent(NULL)]
    /\ clubs = [c \in ClubIds |-> NewClub]
    /\ event_registrations = EmptyBag
    /\ club_memberships = EmptyBag
    /\ call = [c \in Calls |-> IdleCall]
    /\ order = <<>>
    /\ before = NotExecuted
    /\ localStorage \in {NoItems} \cup Sessions
    /\ page = [kind |-> "login.html", toast |-> "", redirect |-> ""]

\* demoLogin(): saveAuth with the demo student, a toast, and the redirect to
\* the dashboard after a second
demoLogin ==
    /\ localStorage' = Stored(demoToken, demoUser)
    /\ page' = [page EXCEPT !.toast = "Welcome, Demo Student! (Demo Mode)",
                            !.redirect = "dashboard.html"]
    /\ UNCHANGED <<tables, call, ghost>>

\* demoAdminLogin()
demoAdminLogin ==
    /\ localStorage' = Stored(demoAdminToken, demoAdmin)
    /\ page' = [page EXCEPT !.toast = "Welcome, Demo Admin! (Admin Demo)",
                            !.redirect = "admin.html"]
    /\ UNCHANGED <<tables, call, ghost>>

\* handleGoogleSignIn() when Google Identity Services is not loaded
handleGoogleSignIn ==
    /\ page.kind = "login.html"
    /\ demoLogin

\* handleGoogleCallback(response) up to its await: Google Identity Services
\* is loaded and has called back with a credential; the toast, then
\* api.googleLogin(response.credential)
handleGoogleCallback(c, credential) ==
    /\ page.kind = "login.html"
    /\ call[c].pc = "idle"
    /\ call' = [call EXCEPT ![c] = Issue("googleLogin", "POST", "auth", credential)]
    /\ page' = [page EXCEPT !.toast = "Signing you in..."]
    /\ UNCHANGED <<tables, ghost, localStorage>>

\* A page asks for the current user's registrations
getMyEventRegistrationsIssued(c) ==
    /\ call[c].pc = "idle"
    /\ call' = [call EXCEPT ![c] = Issue("getMyEventRegistrations", "GET", "event", 0)]
    /\ UNCHANGED <<tables, ghost, page, localStorage>>

\* POST /auth/google-login: the backend has the identity provider verify the
\* ID token and answers with an access token and the user; any other
\* endpoint here needs the access token it issued
ServeSession(c) ==
    /\ call[c].pc = "fetching"
    /\ LET k == call[c]
           outcome == IF k.api = "googleLogin"
                      THEN IF k.id \in DOMAIN users THEN "ok" ELSE "Invalid Google token"
                      ELSE IF k.user \in DOMAIN users THEN "ok" ELSE "Not authenticated"
       IN call' = [call EXCEPT
                      ![c].pc = "done",
                      ![c].outcome = outcome,
                      ![c].result = request(Response(outcome)),
                      ![c].body = IF outcome # "ok" THEN {}
                                  ELSE IF k.api = "googleLogin"
                                  THEN {[access_token |-> Token(k.id), user |-> UserData(k.id)]}
                                  ELSE getMyEventRegistrations(k.user)]
    /\ UNCHANGED <<tables, ghost, page, localStorage>>

\* handleGoogleCallback after its await leaving the session as it was and
\* going to the dashboard all the same
handleGoogleCallbackAwaited_redirects(c) ==
    /\ call[c].pc = "done"
    /\ call[c].api = "googleLogin"
    /\ page' = [page EXCEPT !.toast = "Welcome", !.redirect = "dashboard.html"]
    /\ call' = [call EXCEPT ![c] = IdleCall]
    /\ UNCHANGED <<tables, ghost, localStorage>>

\* handleGoogleCallback after its await: saveAuth with the token and user of
\* the result, the welcome toast and the redirect to the dashboard; or the
\* catch block with its toast
handleGoogleCallbackAwaited(c) ==
    /\ call[c].pc = "done"
    /\ call[c].api = "googleLogin"
    /\ IF call[c].result.returned
       THEN LET authResult == CHOOSE r \in call[c].body : TRUE
            IN /\ localStorage' = Stored(authResult.access_token, authResult.user)
               /\ page' = [page EXCEPT !.toast = "Welcome", !.redirect = "dashboard.html"]
       ELSE /\ localStorage' = localStorage
            /\ page' = [page EXCEPT !.toast = "Login failed: " \o call[c].result.error]
    /\ call' = [call EXCEPT ![c] = IdleCall]
    /\ UNCHANGED <<tables, ghost>>

\* logout() removing the token only
logout_keepsUser ==
    /\ localStorage' = [localStorage EXCEPT !.access_token = NULL]
    /\ page' = [page EXCEPT !.toast = "Logged out successfully", !.redirect = "index.html"]
    /\ UNCHANGED <<tables, call, ghost>>

\* logout(): clearAuth, a toast, and the redirect to the home page after half
\* a second
logout ==
    /\ localStorage' = NoItems
    /\ page' = [page EXCEPT !.toast = "Logged out successfully", !.redirect = "index.html"]
    /\ UNCHANGED <<tables, call, ghost>>

\* The timer set by the login or by logout fires: the browser leaves the
\* document, and what the document awaited is never resumed
Navigate ==
    /\ page.redirect # ""
    /\ page' = [kind |-> page.redirect, toast |-> "", redirect |-> ""]
    /\ call' = [c \in Calls |-> IdleCall]
    /\ UNCHANGED <<tables, ghost, localStorage>>

\* The user opens the login page again
OpenLogin ==
    /\ page.kind # "login.html"
    /\ page.redirect = ""
    /\ page' = [kind |-> "login.html", toast |-> "", redirect |-> ""]
    /\ call' = [c \in Calls |-> IdleCall]
    /\ UNCHANGED <<tables, ghost, localStorage>>

NextSession ==
    \/ handleGoogleSignIn
    \/ demoAdminLogin
    \/ \E c \in Calls, credential \in Credentials : handleGoogleCallback(c, credential)
    \/ \E c \in Calls : getMyEventRegistrationsIssued(c)
    \/ \E c \in Calls : ServeSession(c)
    \/ \E c \in Calls : StorageUnavailable(c)
    \/ \E c \in Calls : requestFails(c)
    \/ \E c \in Calls : handleGoogleCallbackAwaited(c)
    \/ \E c \in Calls : call[c].api # "googleLogin" /\ Complete(c)
    \/ logout
    \/ Navigate
    \/ OpenLogin

SpecSession == InitSession /\ [][NextSession]_vars

\* A step that calls saveAuth
SavesAuth ==
    \/ demoLogin
    \/ demoAdminLogin
    \/ \E c \in Calls : handleGoogleCallbackAwaited(c) /\ call[c].result.returned

\* C23: the token and the user are stored together or not at all, and
\* isLoggedIn() is true exactly then; a step that calls saveAuth leaves
\* isLoggedIn() true (the demo login of Sign In with the role student);
\* logout removes both items and leaves isLoggedIn() false; and isLoggedIn()
\* becomes true only in a step that calls saveAuth.
SessionLifecycle ==
    [][/\ (localStorage'.access_token = NULL) <=> (localStorage'.user = NULL)
       /\ isLoggedIn' <=> (localStorage'.access_token # NULL /\ localStorage'.user # NULL)
       /\ SavesAuth => isLoggedIn'
       /\ handleGoogleSignIn => (isLoggedIn' /\ getUserRole' = "student")
       /\ logout => (localStorage' = NoItems /\ ~isLoggedIn')
       /\ (~isLoggedIn /\ isLoggedIn') => SavesAuth]_vars

\* A user who signed in and reached the dashboard has logged out there
SessionLifecycleWitness ==
    /\ page.kind = "dashboard.html"
    /\ page.toast = "Logged out successfully"
    /\ localStorage = NoItems
    /\ ~isLoggedIn

\* Call c is issued in this step
Issued(c) == call[c].pc = "idle" /\ call'[c].pc = "fetching"

\* C29: a request carries an Authorization header exactly when an access
\* token is stored at the time it is issued, and the header then holds that
\* token: none after logout and before the next saveAuth, the stored one
\* while logged in.
AuthorizationHeader ==
    [][\A c \in Calls :
          Issued(c) =>
             /\ (call'[c].headers.Authorization # NULL) <=> (localStorage.access_token # NULL)
             /\ localStorage.access_token # NULL =>
                   call'[c].headers.Authorization = <<"Bearer", localStorage.access_token[1]>>
             /\ ~isLoggedIn => call'[c].headers.Authorization = NULL]_vars

\* After a logout, one request that was issued with the token is still in
\* flight, and one issued without a token
AuthorizationHeaderWitness ==
    /\ localStorage = NoItems
    /\ page.toast = "Logged out successfully"
    /\ \E c, d \in Calls :
          /\ call[c].pc = "fetching" /\ call[c].headers.Authorization = NULL
          /\ call[d].pc = "fetching" /\ call[d].headers.Authorization # NULL

\* C30: when the login request of handleGoogleCallback fails, the stored
\* token and user stay as they were, isLoggedIn() is unchanged and no
\* redirect is scheduled; the token of a Google sign-in is stored only in a
\* step that has got it, with the user, from the backend.
FailedLogin ==
    [][/\ \A c \in Calls :
             (handleGoogleCallbackAwaited(c) /\ ~call[c].result.returned)
                => /\ localStorage' = localStorage
                   /\ isLoggedIn' = isLoggedIn
                   /\ page'.redirect = page.redirect
       /\ (localStorage' # localStorage /\ Subject(localStorage'.access_token) # 0)
             => \E c \in Calls :
                   /\ handleGoogleCallbackAwaited(c)
                   /\ call[c].outcome = "ok"
                   /\ call[c].result.returned
                   /\ \E authResult \in call[c].body :
                         localStorage' = Stored(authResult.access_token, authResult.user)]_vars

\* The backend refused the credential; the session of before is still stored
FailedLoginWitness ==
    /\ page.kind = "login.html"
    /\ page.toast = "Login failed: Invalid Google token"
    /\ page.redirect = ""
    /\ isLoggedIn

-----------------------------------------------------------------------------
\* A toggle handler goes on after the await of its mutating request
ToggleAwaited(c) == toggleEventRegistrationAwaited(c) \/ toggleClubMembershipAwaited(c)

-----------------------------------------------------------------------------
\* The detail page while the API is available and nobody else acts: every
\* request of the page is answered by the ledger, in any order, and every
\* handler goes on after its answer, in any order.
NextUp ==
    \/ \E c \in Calls : toggleEventRegistration(c)
    \/ \E c \in Calls : toggleEventRegistrationAwaited(c)
    \/ \E c \in Calls : toggleClubMembership(c)
    \/ \E c \in Calls : toggleClubMembershipAwaited(c)
    \/ \E c \in Calls : toggleClubMembershipReloaded(c)
    \/ \E c \in Calls : checkEventRegistrationAwaited(c)
    \/ \E c \in Calls : checkClubMembershipAwaited(c)
    \/ \E c \in Calls : ServeRead(c)
    \/ \E c \in Calls : Serve(c)

SpecPageUp == InitPage /\ [][NextUp]_vars

\* No request of the page is under way: none in flight, none awaited
Quiet == \A c \in Calls : call[c].pc = "idle"

\* The ledger holds a relationship of the page's user with its resource
Held == Rows(page.kind, page.user, page.id) >= 1

\* C25: whenever all requests issued by the detail page since it was loaded
\* (the initial check and any toggles) have completed, the local flag says
\* whether the ledger holds the relationship of the user with the resource.
Converged == Quiet => (page.flag <=> Held)

-----------------------------------------------------------------------------
\* Clicks on the toggle button of a detail page whose check has completed:
\* the flag agrees with the ledger, no request is under way, the API is
\* available and no other client acts.
InitToggles ==
    /\ users = [u \in UserIds |-> NewUser]
    /\ events \in [EventIds -> {NewEvent(m) : m \in Caps}]
    /\ clubs = [c \in ClubIds |-> NewClub]
    /\ \E u \in UserIds :
          \/ \E e \in EventIds :
                /\ event_registrations \in Ledgers(EventIds)
                /\ club_memberships = EmptyBag
                /\ page = [kind |-> "event", user |-> u, id |-> e,
                           flag |-> isActive(u, "event", e),
                           shown |-> eventDetailRegCount(getEvent(e)), toast |-> ""]
          \/ \E b \in ClubIds :
                /\ event_registrations = EmptyBag
                /\ club_memberships \in Ledgers(ClubIds)
                /\ page = [kind |-> "club", user |-> u, id |-> b,
                           flag |-> isActive(u, "club", b),
                           shown |-> clubDetailMembers(getClub(b)), toast |-> ""]
    /\ \A e \in EventIds :
          events[e].max_participants # NULL
             => DerivedCount("event", e) <= events[e].max_participants[1]
    /\ call = [c \in Calls |-> IdleCall]
    /\ order = <<>>
    /\ before = NotExecuted
    /\ localStorage = Stored(Token(page.user), UserData(page.user))

NextToggles ==
    \/ \E c \in Calls : toggleEventRegistration(c)
    \/ \E c \in Calls : toggleEventRegistrationAwaited(c)
    \/ \E c \in Calls : toggleClubMembership(c)
    \/ \E c \in Calls : toggleClubMembershipAwaited(c)
    \/ \E c \in Calls : toggleClubMembershipReloaded(c)
    \/ \E c \in Calls : ServeRead(c)
    \/ \E c \in Calls : Serve(c)

SpecToggles == InitToggles /\ [][NextToggles]_vars

\* C26: starting with the flag in agreement with the ledger and with no
\* other client changing the pair, once all toggle invocations, overlapping
\* or not, have completed, the flag equals the ledger's state for the pair
\* and the ledger holds at most one relationship for it.
OverlappingToggles ==
    Quiet => /\ page.flag <=> Held
             /\ Rows(page.kind, page.user, page.id) <= 1

-----------------------------------------------------------------------------
\* The detail page as any visitor can have it open: loaded by a signed-in
\* user with the check under way (InitPage); loaded by a visitor who is not
\* signed in, for whom no check is started; or opened without an id, where
\* initEventDetailPage / initClubDetailPage return after their toast.
InitClick ==
    \/ InitPage
    \/ /\ users = [u \in UserIds |-> NewUser]
       /\ events \in [EventIds -> {NewEvent(m) : m \in Caps}]
       /\ clubs = [c \in ClubIds |-> NewClub]
       /\ event_registrations = EmptyBag
       /\ club_memberships = EmptyBag
       /\ call = [c \in Calls |-> IdleCall]
       /\ order = <<>>
       /\ before = NotExecuted
       /\ \/ /\ localStorage = NoItems
             /\ \/ \E e \in EventIds :
                      page = [kind |-> "event", user |-> 0, id |-> e, flag |-> FALSE,
                              shown |-> eventDetailRegCount(getEvent(e)), toast |-> ""]
                \/ \E b \in ClubIds :
                      page = [kind |-> "club", user |-> 0, id |-> b, flag |-> FALSE,
                              shown |-> clubDetailMembers(getClub(b)), toast |-> ""]
          \/ \E u \in UserIds, kind \in {"event", "club"} :
                /\ localStorage = Stored(Token(u), UserData(u))
                /\ page = [kind |-> kind, user |-> u, id |-> 0, flag |-> FALSE,
                           shown |-> 0,
                           toast |-> IF kind = "event" THEN "No event specified"
                                                       ELSE "No club specified"]

SpecClick == InitClick /\ [][NextOwn]_vars

\* The mutating requests that are in flight
InFlight == {c \in Calls : call[c].pc = "fetching"}

\* C27: a step of a toggle handler issues at most one mutating request, a
\* remove if the flag was true at the click and a create if it was false; the
\* handler issues no further mutating request when it goes on after its await
\* (no retry); and with no user signed in or no resource id set, no request
\* is issued and the flag stays as it is.
OneRequestPerClick ==
    [][/\ Cardinality(InFlight') <= Cardinality(InFlight) + 1
       /\ \A c \in Calls :
             /\ Issued(c) =>
                   /\ isLoggedIn /\ page.id # 0
                   /\ page.flag => IsRemove(call'[c])
                   /\ ~page.flag => IsCreate(call'[c])
                   /\ call'[c].id = page.id
             /\ ToggleAwaited(c) => InFlight' \subseteq InFlight
       /\ (~isLoggedIn \/ page.id = 0) =>
             /\ \A c \in Calls : call'[c].pc = "idle"
             /\ page'.flag = page.flag]_vars

\* A visitor who is not signed in has clicked the button: the page has gone
\* to the login page, and no request was issued
OneRequestPerClickWitness ==
    /\ page.kind = "login.html"
    /\ ~isLoggedIn
    /\ ~page.flag
    /\ InFlight = {}

-----------------------------------------------------------------------------
\* The events listing page.  page.allEvents is the variable allEvents (the
\* events as a set: their order plays no part), page.currentFilter the
\* variable currentFilter, page.eventSearchInput the value of the search
\* field, page.eventsGrid the ids of the cards renderEvents has put into the
\* grid, page.params the query of the getEvents request under way (NULL
\* without one), page.demo whether allEvents holds the demo events.

NumListed == 2

ListedIds == 1..NumListed

\* events.category CHECK (category IN ('Technical', 'Cultural', 'Sports'))
Categories == {"Technical", "Cultural", "Sports"}

\* The values a filter button or the category of the URL can have
Filters == Categories \cup {"all"}

\* Texts are sequences of characters; titles and search texts are drawn
\* from these
Titles == {<<"A", "b">>, <<"b", "a">>}

SearchTexts == {<<>>, <<"a">>, <<"A">>, <<"b", "a">>}

\* String.prototype.toLowerCase
toLowerCase(text) == [i \in DOMAIN text |-> IF text[i] = "A" THEN "a" ELSE text[i]]

\* String.prototype.includes
includes(text, part) ==
    \E i \in 0..(Len(text) - Len(part)) : SubSeq(text, i + 1, i + Len(part)) = part

\* A row of events as the listing reads it (description and venue are empty)
ListedEvent(category, title) ==
    [status |-> "upcoming", max_participants |-> NULL, category |-> category, title |-> title]

\* GET /events?category=&search=: the events of the category whose title
\* contains the search text, whatever the case
getEvents(params) ==
    {[id |-> e, category |-> events[e].category, title |-> events[e].title] :
        e \in {x \in DOMAIN events :
                 /\ params.category # NULL => events[x].category = params.category[1]
                 /\ params.search # NULL =>
                       includes(toLowerCase(events[x].title), toLowerCase(params.search[1]))}}

\* loadEvents up to its await: the query is made from currentFilter and from
\* the search field
Params(currentFilter, searchValue) ==
    [category |-> IF currentFilter # "all" THEN <<currentFilter>> ELSE NULL,
     search |-> IF searchValue # <<>> THEN <<searchValue>> ELSE NULL]

\* initEventsPage: currentFilter is the category of the URL if there is one,
\* then loadEvents sends its request
InitFilter ==
    /\ users = [u \in UserIds |-> NewUser]
    /\ events \in [ListedIds -> {ListedEvent(c, t) : c \in Categories, t \in Titles}]
    /\ clubs = [c \in ClubIds |-> NewClub]
    /\ event_registrations = EmptyBag
    /\ club_memberships = EmptyBag
    /\ call = [c \in Calls |-> IdleCall]
    /\ order = <<>>
    /\ before = NotExecuted
    /\ localStorage = NoItems
    /\ \E urlCategory \in Filters :
          page = [kind |-> "events.html", allEvents |-> {}, currentFilter |-> urlCategory,
                  eventSearchInput |-> <<>>, eventsGrid |-> {},
                  params |-> <<Params(urlCategory, <<>>)>>, demo |-> FALSE]

\* loadEvents after its await: allEvents is what the API returned, and all
\* of it is rendered
loadEventsAwaited ==
    /\ page.kind = "events.html"
    /\ page.params # NULL
    /\ LET got == getEvents(page.params[1])
       IN page' = [page EXCEPT !.allEvents = got,
                               !.eventsGrid = {e.id : e \in got},
                               !.params = NULL]
    /\ UNCHANGED <<tables, call, ghost, localStorage>>

\* The demo events of loadDemoEvents, one of each category here; their ids
\* ('demo1', ...) are ids of no row
demoEvents ==
    {[id |-> -1, category |-> "Technical", title |-> <<"A", "b">>],
     [id |-> -2, category |-> "Cultural", title |-> <<"b", "a">>],
     [id |-> -3, category |-> "Sports", title |-> <<"b", "a">>]}

\* filterEvents: the events of allEvents of the category currentFilter (all
\* of them for 'all') whose title contains the lower-cased search text
filterEvents(currentFilter, searchValue) ==
    {e.id : e \in {x \in page.allEvents :
                     /\ currentFilter # "all" => x.category = currentFilter
                     /\ searchValue # <<>> =>
                           includes(toLowerCase(x.title), toLowerCase(searchValue))}}

\* loadEvents when the request fails: loadDemoEvents
loadEventsFailed ==
    /\ page.kind = "events.html"
    /\ page.params # NULL
    /\ page' = [page EXCEPT !.allEvents = demoEvents,
                            !.eventsGrid =
                               {e.id : e \in {x \in demoEvents :
                                                page.currentFilter # "all"
                                                   => x.category = page.currentFilter}},
                            !.params = NULL,
                            !.demo = TRUE]
    /\ UNCHANGED <<tables, call, ghost, localStorage>>

\* setEventFilter(category, btn)
setEventFilter(category) ==
    /\ page.kind = "events.html"
    /\ page' = [page EXCEPT !.currentFilter = category,
                            !.eventsGrid = filterEvents(category, page.eventSearchInput)]
    /\ UNCHANGED <<tables, call, ghost, localStorage>>

\* The visitor types into the search field
typeSearch(text) ==
    /\ page.kind = "events.html"
    /\ page.eventSearchInput # text
    /\ page' = [page EXCEPT !.eventSearchInput = text]
    /\ UNCHANGED <<tables, call, ghost, localStorage>>

NextFilter ==
    \/ loadEventsAwaited
    \/ loadEventsFailed
    \/ \E category \in Filters : setEventFilter(category)
    \/ \E text \in SearchTexts : typeSearch(text)

SpecFilter == InitFilter /\ [][NextFilter]_vars

\* The events of the catalog of a category (all for 'all') that match a text
CatalogEvents(category, text) ==
    {e \in DOMAIN events :
        /\ category # "all" => events[e].category = category
        /\ text # <<>> => includes(toLowerCase(events[e].title), toLowerCase(text))}

\* C28: after setEventFilter(c), with the events loaded from the API under
\* whatever filter, the rendered events are exactly the events of the
\* catalog of category c (all of them for 'all') that match the search text.
FilterShowsCategory ==
    [][\A c \in Filters :
          (setEventFilter(c) /\ page.params = NULL /\ ~page.demo)
             => page'.eventsGrid = CatalogEvents(c, page.eventSearchInput)]_vars

====
